---- MODULE Spec2Model ----
(***************************************************************************)
(* Model of the Wi-Fi car monitoring scraper (src/src/scraper.py) and of   *)
(* the Streamlit dashboard that consumes it (src/src/app.py).              *)
(*                                                                         *)
(* Text is modelled as a sequence of tokens (words, blanks, digits), so    *)
(* that strip(), lower(), substring tests, regular-expression search and   *)
(* int() are computed on the tokens as the code computes them on the       *)
(* characters.                                                             *)
(***************************************************************************)
EXTENDS Integers, Sequences, FiniteSets, TLC

VARIABLES pc, entrada, saida, session_state, execucao, relogio

vars == <<pc, entrada, saida, session_state, execucao, relogio>>

(***************************************************************************)
(* Bounds of the model.                                                    *)
(***************************************************************************)
\* number of text units above the table of a generated page
MaxUnidades == 3
\* number of columns of a generated table
MaxColunas == 3
\* number of tables of a generated page
MaxTabelas == 2
\* number of tokens of a generated response body of atualiza_status.php
MaxCorpo == 4
\* number of dashboard runs whose wall-clock time is told apart
MaxRelogio == 4

(***************************************************************************)
(* Generic helpers on token sequences.                                     *)
(***************************************************************************)
RECURSIVE Concat(_)
Concat(ss) == IF ss = <<>> THEN <<>> ELSE Head(ss) \o Concat(Tail(ss))

RECURSIVE SeqsUpTo(_, _)
SeqsUpTo(S, n) ==
    IF n = 0 THEN {<<>>}
    ELSE LET shorter == SeqsUpTo(S, n - 1)
         IN  shorter \cup {Append(s, x) : s \in {t \in shorter : Len(t) = n - 1}, x \in S}

Range(s) == {s[i] : i \in 1..Len(s)}

\* Python None
None == [None |-> TRUE]

\* whitespace characters, as str.strip() and the regex class \s know them
IsSpace(t) == t \in {" ", "\n"}

\* str.strip(): drops leading and trailing whitespace, keeps the inner one
RECURSIVE LStrip(_)
LStrip(s) == IF s # <<>> /\ IsSpace(Head(s)) THEN LStrip(Tail(s)) ELSE s

RECURSIVE RStrip(_)
RStrip(s) ==
    IF s # <<>> /\ IsSpace(s[Len(s)]) THEN RStrip(SubSeq(s, 1, Len(s) - 1)) ELSE s

Strip(s) == RStrip(LStrip(s))

(***************************************************************************)
(* parse_resumo: the visible text and the three regular expressions.       *)
(***************************************************************************)
Digits == {"0", "1", "2", "3", "4", "5", "6", "7", "8", "9"}

DigitVal(t) ==
    CASE t = "0" -> 0 [] t = "1" -> 1 [] t = "2" -> 2 [] t = "3" -> 3
      [] t = "4" -> 4 [] t = "5" -> 5 [] t = "6" -> 6 [] t = "7" -> 7
      [] t = "8" -> 8 [] t = "9" -> 9

\* int(): decimal value of a run of digits
RECURSIVE ToIntAcc(_, _)
ToIntAcc(ds, acc) ==
    IF ds = <<>> THEN acc ELSE ToIntAcc(Tail(ds), 10 * acc + DigitVal(Head(ds)))

ToInt(ds) == ToIntAcc(ds, 0)

\* BeautifulSoup(html).get_text(separator="\n"): the text nodes of the
\* document, joined by a newline
RECURSIVE JoinNL(_)
JoinNL(nodes) ==
    IF nodes = <<>> THEN <<>>
    ELSE IF Len(nodes) = 1 THEN Head(nodes)
    ELSE Head(nodes) \o <<"\n">> \o JoinNL(Tail(nodes))

\* The literal part of each pattern: one set of admissible tokens per
\* position (a singleton for a literal, two tokens for the class [aã]).
\* the pattern with the colon optional:  Total de Carros[: ]\s*(\d+)
PadraoTotalFrouxo ==
    <<{"Total"}, {" "}, {"de"}, {" "}, {"Carros"}, {":", " "}>>

PadraoTotal ==
    <<{"Total"}, {" "}, {"de"}, {" "}, {"Carros"}, {":"}>>

PadraoFuncionando ==
    <<{"Total"}, {" "}, {"de"}, {" "}, {"Carros"}, {" "}, {"Funcionando"}, {":"}>>

PadraoNaoFuncionando ==
    <<{"Total"}, {" "}, {"de"}, {" "}, {"Carros"}, {" "}, {"Nao", "Não"}, {" "},
      {"Funcionando"}, {":"}>>

\* the literal matches at position i of the text
LiteralAt(texto, lit, i) ==
    /\ i + Len(lit) - 1 <= Len(texto)
    /\ \A k \in 1..Len(lit) : texto[i + k - 1] \in lit[k]

\* \s* : first position at or after j that holds no whitespace
RECURSIVE SkipSpace(_, _)
SkipSpace(texto, j) ==
    IF j <= Len(texto) /\ IsSpace(texto[j]) THEN SkipSpace(texto, j + 1) ELSE j

\* (\d+) : the longest run of digits that starts at j
RECURSIVE DigitRun(_, _)
DigitRun(texto, j) ==
    IF j <= Len(texto) /\ texto[j] \in Digits
    THEN <<texto[j]>> \o DigitRun(texto, j + 1)
    ELSE <<>>

\* group(1) of  <literal>\s*(\d+)  matched at position i, <<>> if no match
GroupAt(texto, lit, i) ==
    IF LiteralAt(texto, lit, i)
    THEN DigitRun(texto, SkipSpace(texto, i + Len(lit)))
    ELSE <<>>

\* re.search: the leftmost match; None when there is none
ReSearch(lit, texto) ==
    LET hits == {i \in 1..Len(texto) : GroupAt(texto, lit, i) # <<>>}
    IN  IF hits = {} THEN None
        ELSE LET i == CHOOSE h \in hits : \A g \in hits : h <= g
             IN  [group1 |-> GroupAt(texto, lit, i)]

\* _to_int
_to_int(match) == IF match # None THEN ToInt(match.group1) ELSE 0

\* the text of every string of the document: the text above the tables and
\* then the header cells of each table
TextNodes(html) ==
    [i \in 1..Len(html.unidades) |-> html.unidades[i].texto]
    \o Concat([i \in 1..Len(html.tabelas) |-> html.tabelas[i].columns])

parse_resumo(html) ==
    LET texto == JoinNL(TextNodes(html))
        padrao_total == ReSearch(PadraoTotal, texto)
        padrao_funcionando == ReSearch(PadraoFuncionando, texto)
        padrao_nao_funcionando == ReSearch(PadraoNaoFuncionando, texto)
    IN  [resumo |->
            [total_carros |-> _to_int(padrao_total),
             total_funcionando |-> _to_int(padrao_funcionando),
             total_nao_funcionando |-> _to_int(padrao_nao_funcionando)],
         warning |-> ~(/\ padrao_total # None
                       /\ padrao_funcionando # None
                       /\ padrao_nao_funcionando # None)]

(***************************************************************************)
(* parse_tabela: pandas.read_html and the normalisation of the headers.    *)
(***************************************************************************)
\* str.lower() on one token
Lower(t) ==
    CASE t \in {"Carro", "CARRO"} -> "carro"
      [] t \in {"Carros", "CARROS"} -> "carros"
      [] t \in {"Status", "STATUS"} -> "status"
      [] t \in {"Último", "ÚLTIMO"} -> "último"
      [] t \in {"Ultimo", "ULTIMO"} -> "ultimo"
      [] t \in {"Acesso", "ACESSO"} -> "acesso"
      [] t \in {"Placa", "PLACA"} -> "placa"
      [] t = "X" -> "x"
      [] OTHER -> t

LowerStr(s) == [i \in 1..Len(s) |-> Lower(s[i])]

\* the tokens in which the keyword occurs as a substring
TokensWith(kw) == IF kw = "carro" THEN {"carro", "carros"} ELSE {kw}

\* Python's  kw in nome
In(kw, nome) == \E i \in 1..Len(nome) : nome[i] \in TokensWith(kw)

Carro == <<"Carro">>
UltimoAcesso == <<"Último", " ", "Acesso">>
Status == <<"Status">>

\* the chain with the test for "status" moved to the front
RegraStatusPrimeiro(col) ==
    LET nome == LowerStr(Strip(col))
    IN  IF In("status", nome) THEN "status"
        ELSE IF In("carro", nome) THEN "carro"
        ELSE IF In("último", nome) \/ In("ultimo", nome) THEN "ultimo"
        ELSE "nenhuma"

\* the if / elif / elif chain of the loop body: the branch that is taken
Regra(col) ==
    LET nome == LowerStr(Strip(col))
    IN  IF In("carro", nome) THEN "carro"
        ELSE IF In("último", nome) \/ In("ultimo", nome) THEN "ultimo"
        ELSE IF In("status", nome) THEN "status"
        ELSE "nenhuma"

\* the name each branch stores in the dict
Canonico(regra) ==
    CASE regra = "carro" -> Carro
      [] regra = "ultimo" -> UltimoAcesso
      [] regra = "status" -> Status

\* the dict colunas_normalizadas built by the loop over df.columns
ColunasNormalizadas(columns) ==
    [col \in {c \in Range(columns) : Regra(c) # "nenhuma"} |-> Canonico(Regra(col))]

\* df.rename(columns=mapa): a column found in the dict takes its new name
Rename(columns, mapa) ==
    [i \in 1..Len(columns) |->
        IF columns[i] \in DOMAIN mapa THEN mapa[columns[i]] ELSE columns[i]]

\* the header normalisation of parse_tabela as a whole
NormalizaColunas(columns) ==
    LET colunas_normalizadas == ColunasNormalizadas(columns)
    IN  IF DOMAIN colunas_normalizadas # {}
        THEN Rename(columns, colunas_normalizadas)
        ELSE columns

colunas_esperadas == {Carro, UltimoAcesso, Status}

\* pandas.read_html: one DataFrame per table of the document, in document
\* order; ValueError when the document holds no table
read_html(html) ==
    IF html.tabelas = <<>>
    THEN [raised |-> "ValueError", tabelas |-> <<>>]
    ELSE [raised |-> "nenhum", tabelas |-> html.tabelas]

\* the last table taken instead of the first
EscolhidaUltima(tabelas) == tabelas[Len(tabelas)]

\* which of the DataFrames returned by read_html becomes df
Escolhida(tabelas) == tabelas[1]

TabelaNaoEncontrada == <<"Nenhuma tabela HTML encontrada na página.">>

\* parse_tabela raising when an expected column is missing
parse_tabelaEstrita(html) ==
    LET lidas == read_html(html)
    IN  IF lidas.raised = "ValueError" \/ lidas.tabelas = <<>>
           \/ ~(colunas_esperadas \subseteq Range(NormalizaColunas(Escolhida(lidas.tabelas).columns)))
        THEN [raised |-> "MonitoramentoError", msg |-> TabelaNaoEncontrada,
              df |-> None, warning |-> FALSE]
        ELSE [raised |-> "nenhum", msg |-> <<>>,
              df |-> [columns |-> NormalizaColunas(Escolhida(lidas.tabelas).columns),
                      linhas |-> Escolhida(lidas.tabelas).linhas],
              warning |-> FALSE]

parse_tabela(html) ==
    LET lidas == read_html(html)
    IN  IF lidas.raised = "ValueError" \/ lidas.tabelas = <<>>
        THEN [raised |-> "MonitoramentoError", msg |-> TabelaNaoEncontrada,
              df |-> None, warning |-> FALSE]
        ELSE LET df == Escolhida(lidas.tabelas)
                 columns == NormalizaColunas(df.columns)
             IN  [raised |-> "nenhum", msg |-> <<>>,
                  df |-> [columns |-> columns, linhas |-> df.linhas],
                  warning |-> ~(colunas_esperadas \subseteq Range(columns))]

(***************************************************************************)
(* fetch_html and get_monitoramento.                                       *)
(***************************************************************************)
\* the exceptions requests.get and raise_for_status raise: no connection,
\* timeout, non-2xx status
ExcecoesRequests == {"ConnectionError", "Timeout", "HTTPError"}

\* an except clause that catches requests.ConnectionError alone
SoConnectionError == {"ConnectionError"}

\* the classes caught by  except requests.RequestException  (all three
\* derive from it)
RequestException == {"ConnectionError", "Timeout", "HTTPError"}

\* the message of the MonitoramentoError raised by fetch_html
MensagemFetch(url, exc) == <<"Erro ao acessar a URL ", url, ": ", exc>>

\* resposta.exc is the exception requests raises ("nenhum": a 2xx response
\* with the page resposta.html)
fetch_html(url, resposta) ==
    IF resposta.exc = "nenhum"
    THEN [raised |-> "nenhum", msg |-> <<>>, html |-> resposta.html]
    ELSE IF resposta.exc \in RequestException
    THEN [raised |-> "MonitoramentoError",
          msg |-> MensagemFetch(url, resposta.exc), html |-> None]
    ELSE [raised |-> resposta.exc, msg |-> <<resposta.exc>>, html |-> None]

\* the value get_monitoramento returns or the exception that leaves it;
\* chamadas: the functions of the module entered during the call, in order
Retorno(tabela, resumo) ==
    IF tabela.raised # "nenhum"
    THEN [raised |-> tabela.raised, msg |-> tabela.msg, df |-> None, resumo |-> None,
          chamadas |-> <<"fetch_html", "parse_resumo", "parse_tabela">>]
    ELSE [raised |-> "nenhum", msg |-> <<>>, df |-> tabela.df, resumo |-> resumo,
          chamadas |-> <<"fetch_html", "parse_resumo", "parse_tabela">>]

\* the statements of get_monitoramento after  html = fetch_html(url)
AposFetch(baixado) ==
    IF baixado.raised # "nenhum"
    THEN [raised |-> baixado.raised, msg |-> baixado.msg, df |-> None, resumo |-> None,
          chamadas |-> <<"fetch_html">>]
    ELSE Retorno(parse_tabela(baixado.html), parse_resumo(baixado.html).resumo)

get_monitoramento(url, resposta) == AposFetch(fetch_html(url, resposta))

(***************************************************************************)
(* chamar_atualiza_status (app.py).                                        *)
(***************************************************************************)
SemMensagem == <<"Atualização concluída (sem mensagem do servidor).">>

MensagemAtualiza(exc) == <<"Erro ao atualizar status no servidor: ", exc>>

\* the body taken as it is, without strip()
TextoLiteral(text) == text

\* resp.text.strip()
TextoResposta(text) == Strip(text)

\* resposta.exc as in fetch_html; resposta.text is the body of a 2xx response
chamar_atualiza_status(url_atualiza, resposta) ==
    LET url == Strip(url_atualiza)
    IN  IF resposta.exc = "nenhum"
        THEN LET texto == TextoResposta(resposta.text)
             IN  [raised |-> "nenhum", url |-> url, ok |-> TRUE,
                  msg |-> IF texto = <<>> THEN SemMensagem ELSE texto]
        ELSE IF resposta.exc \in RequestException
        THEN [raised |-> "nenhum", url |-> url, ok |-> FALSE,
              msg |-> MensagemAtualiza(resposta.exc)]
        ELSE [raised |-> resposta.exc, url |-> url, ok |-> FALSE, msg |-> <<>>]

(***************************************************************************)
(* The pages, tables and responses the functions are applied to.           *)
(***************************************************************************)
TdC == <<"Total", " ", "de", " ", "Carros">>

\* One unit of text above the table: its tokens, and the field and value it
\* states (campo "nenhum": it states no total).  Every unit ends in a token
\* that is neither blank nor the end of a label.
Unidade(texto, campo, valor) == [texto |-> texto, campo |-> campo, valor |-> valor]

Unidades ==
    { Unidade(TdC \o <<":", " ", "1", "1", "7">>, "total_carros", 117),
      Unidade(TdC \o <<":", "\n", "3">>, "total_carros", 3),
      Unidade(TdC \o <<" ", "Funcionando", ":", " ", "3", "4">>, "total_funcionando", 34),
      Unidade(TdC \o <<" ", "Funcionando", ":", "4">>, "total_funcionando", 4),
      Unidade(TdC \o <<" ", "Não", " ", "Funcionando", ":", " ", "8", "3">>,
              "total_nao_funcionando", 83),
      Unidade(TdC \o <<" ", "Nao", " ", "Funcionando", ":", "\n", " ", "8">>,
              "total_nao_funcionando", 8),
      Unidade(TdC \o <<" ", "5">>, "nenhum", 0),
      Unidade(TdC \o <<" ", "Funcionando", ":", " ", "x">>, "nenhum", 0),
      Unidade(<<"x">>, "nenhum", 0),
      Unidade(<<"9">>, "nenhum", 0) }

\* the units used where the table matters more than the text
UnidadesBasicas ==
    { u \in Unidades : u.texto \in
        { TdC \o <<":", " ", "1", "1", "7">>,
          TdC \o <<" ", "Funcionando", ":", " ", "3", "4">>,
          TdC \o <<" ", "Não", " ", "Funcionando", ":", " ", "8", "3">>,
          <<"x">> } }

Cabecalhos ==
    { <<"Carro">>, <<"CARRO">>, <<"carro", " ">>, <<"Carro", " ", "X">>,
      <<"Último", " ", "Acesso">>, <<"ultimo", " ", "acesso">>, <<" ", "ÚLTIMO">>,
      <<"Status">>, <<"STATUS", " ", "Carro">>, <<"Placa">> }

\* pandas gives the columns of one DataFrame pairwise distinct labels
Distintas(columns) ==
    \A i, j \in 1..Len(columns) : i # j => columns[i] # columns[j]

Tabela(columns, linhas) == [columns |-> columns, linhas |-> linhas]

\* the first table of a page: any header row of distinct headers
Primeiras ==
    { Tabela(c, "A") :
        c \in {x \in SeqsUpTo(Cabecalhos, MaxColunas) : x # <<>> /\ Distintas(x)} }

\* the first table of a page: a column of its own and every subset of the
\* three expected headers
PrimeirasBasicas ==
    LET esperadas == <<Carro, UltimoAcesso, Status>>
    IN  { Tabela(<<<<"Placa">>>> \o SelectSeq(esperadas, LAMBDA h : h \in S), "A") :
            S \in SUBSET colunas_esperadas }

\* tables that follow the first one on a page
OutrasTabelas ==
    { Tabela(<<<<"Carro">>, <<"Status">>>>, "B"), Tabela(<<<<"Placa">>>>, "C") }

\* the pages with the given texts above the tables and first tables
Paginas(textos, primeiras) ==
    { [unidades |-> u, tabelas |-> t] :
        u \in textos,
        t \in {<<>>} \cup { <<p>> \o r : p \in primeiras,
                                        r \in SeqsUpTo(OutrasTabelas, MaxTabelas - 1) } }

URLs == {"http://45.71.160.173/monitoramento/", "http://host.invalid/"}

Falhas == { [exc |-> e, html |-> None] : e \in ExcecoesRequests }

Respostas(paginas) == Falhas \cup { [exc |-> "nenhum", html |-> h] : h \in paginas }

\* bodies of the 2xx responses of atualiza_status.php
Corpos == SeqsUpTo({" ", "\n", "OK", "atualizados"}, MaxCorpo)

RespostasAtualiza ==
    { [exc |-> e, text |-> <<>>] : e \in ExcecoesRequests }
    \cup { [exc |-> "nenhum", text |-> t] : t \in Corpos }

URLsAtualiza ==
    { <<"http://45.71.160.173/monitoramento/atualiza_status.php">>,
      <<" ", "http://45.71.160.173/monitoramento/atualiza_status.php", "\n">> }

(***************************************************************************)
(* State of the dashboard session before its first run: main() stores None *)
(* and "" under the four keys that are not in st.session_state yet.        *)
(***************************************************************************)
SessaoInicial ==
    [df |-> None, resumo |-> None, ultima_msg_atualiza |-> <<>>,
     ultima_execucao |-> None]

ExecucaoInicial ==
    [botao |-> FALSE, chamadas |-> <<>>, resultados |-> <<>>, filtro_carro |-> <<>>,
     secao |-> "inicio", erro |-> "nenhum", exibiu |-> FALSE]

SemSessao ==
    /\ session_state = SessaoInicial
    /\ execucao = ExecucaoInicial
    /\ relogio = 0

(***************************************************************************)
(* The functions of the scraper applied to one input each.                 *)
(***************************************************************************)
Entrada(funcao, entradas) ==
    /\ pc = funcao
    /\ entrada \in entradas
    /\ saida = None
    /\ SemSessao

ParseResumo ==
    /\ pc = "parse_resumo"
    /\ pc' = "feito"
    /\ saida' = parse_resumo(entrada)
    /\ UNCHANGED <<entrada, session_state, execucao, relogio>>

InitResumo ==
    Entrada("parse_resumo",
            { [unidades |-> u, tabelas |-> t] :
                u \in SeqsUpTo(Unidades, MaxUnidades),
                t \in {<<>>, <<Tabela(<<Carro, Status>>, "A")>>} })

SpecResumo == InitResumo /\ [][ParseResumo]_vars

ParseTabela ==
    /\ pc = "parse_tabela"
    /\ pc' = "feito"
    /\ saida' = parse_tabela(entrada)
    /\ UNCHANGED <<entrada, session_state, execucao, relogio>>

InitTabela == Entrada("parse_tabela", Paginas({<<>>}, Primeiras))

SpecTabela == InitTabela /\ [][ParseTabela]_vars

GetMonitoramento ==
    /\ pc = "get_monitoramento"
    /\ pc' = "feito"
    /\ saida' = get_monitoramento(entrada.url, entrada.resposta)
    /\ UNCHANGED <<entrada, session_state, execucao, relogio>>

InitMonitoramento ==
    Entrada("get_monitoramento",
            { [url |-> u, resposta |-> r] :
                u \in URLs,
                r \in Respostas(Paginas(SeqsUpTo(UnidadesBasicas, MaxUnidades),
                                        PrimeirasBasicas)) })

SpecMonitoramento == InitMonitoramento /\ [][GetMonitoramento]_vars

ChamarAtualizaStatus ==
    /\ pc = "chamar_atualiza_status"
    /\ pc' = "feito"
    /\ saida' = chamar_atualiza_status(entrada.url, entrada.resposta)
    /\ UNCHANGED <<entrada, session_state, execucao, relogio>>

InitAtualiza ==
    Entrada("chamar_atualiza_status",
            { [url |-> u, resposta |-> r] : u \in URLsAtualiza, r \in RespostasAtualiza })

SpecAtualiza == InitAtualiza /\ [][ChamarAtualizaStatus]_vars

(***************************************************************************)
(* The dashboard: one run of main() per action.                            *)
(***************************************************************************)
carregar_dados(url, resposta) == get_monitoramento(url, resposta)

\* the table stored without the summary
GuardaSoTabela(ss, dados) == [ss EXCEPT !.df = dados.df]

\* st.session_state["df"] = df ; st.session_state["resumo"] = resumo
Guarda(ss, dados) == [ss EXCEPT !.df = dados.df, !.resumo = dados.resumo]

\* Step 2/2 of the button: the try / except around carregar_dados.
\* b holds the session state, the calls made so far in this run and how
\* each call of the pipeline ended.
Etapa2(b, dados, agora) ==
    IF dados.raised = "nenhum"
    THEN [ss |-> [Guarda(b.ss, dados) EXCEPT !.ultima_execucao = [t |-> agora]],
          chamadas |-> Append(b.chamadas, "carregar_dados"),
          resultados |-> Append(b.resultados, "nenhum")]
    ELSE [ss |-> b.ss,
          chamadas |-> Append(b.chamadas, "carregar_dados"),
          resultados |-> Append(b.resultados, dados.raised)]

\* Step 1/2 of the button: the update endpoint is called and its message
\* is stored.
Etapa1(ss, url_atualiza, ra) ==
    [ss |-> [ss EXCEPT !.ultima_msg_atualiza = chamar_atualiza_status(url_atualiza, ra).msg],
     chamadas |-> <<"chamar_atualiza_status">>,
     resultados |-> <<>>]

\* the button without its step 1/2
BotaoSemEtapa1(ss, url, url_atualiza, ra, r1, agora) ==
    Etapa2([ss |-> ss, chamadas |-> <<>>, resultados |-> <<>>],
           carregar_dados(url, r1), agora)

\* The body of  if st.button("Atualizar dados agora"):
Botao(ss, url, url_atualiza, ra, r1, agora) ==
    Etapa2(Etapa1(ss, url_atualiza, ra), carregar_dados(url, r1), agora)

\* the try / except of the automatic load
CargaInicial(b, dados) ==
    [ss |-> IF dados.raised = "nenhum" THEN Guarda(b.ss, dados) ELSE b.ss,
     chamadas |-> Append(b.chamadas, "carregar_dados"),
     resultados |-> Append(b.resultados, dados.raised)]

\* The automatic load:  if st.session_state["df"] is None:
Automatico(b, url, r) ==
    IF b.ss.df # None THEN b ELSE CargaInicial(b, carregar_dados(url, r))

\* st.progress(int(round(100 * valor / total))) rejects a value above 100;
\* round() takes 100.5 down to 100
ForaDaFaixa(valor, total) == total > 0 /\ 200 * valor > 201 * total

Quantas(columns, nome) == Cardinality({i \in 1..Len(columns) : columns[i] = nome})

\* The indicators, reached with df and resumo set: the exception raised by
\* one of the two progress bars, "nenhum" when both are drawn.
Indicadores(resumo) ==
    IF \/ ForaDaFaixa(resumo.total_funcionando, resumo.total_carros)
       \/ ForaDaFaixa(resumo.total_nao_funcionando, resumo.total_carros)
    THEN "StreamlitAPIException"
    ELSE "nenhum"

\* The section "Tabela de Carros": the exception that ends it, "nenhum"
\* when st.dataframe is reached.
TabelaDeCarros(df, filtro_carro) ==
    IF Strip(filtro_carro) # <<>> /\ Quantas(df.columns, Carro) = 0
    THEN "KeyError"
    ELSE IF Strip(filtro_carro) # <<>> /\ Quantas(df.columns, Carro) > 1
    THEN "AttributeError"
    ELSE IF Quantas(df.columns, UltimoAcesso) > 1
    THEN "ValueError"
    ELSE IF Quantas(df.columns, Status) >= 1 /\ ~Distintas(df.columns)
    THEN "KeyError"
    ELSE "nenhum"

\* how the run ended: the last section it entered ("stop": st.stop() with
\* no data), the exception raised there and the text of the car filter the
\* table section read
Fim(botao, a, filtro_carro, secao, erro) ==
    [ss |-> a.ss,
     execucao |-> [botao |-> botao, chamadas |-> a.chamadas,
                   resultados |-> a.resultados, filtro_carro |-> filtro_carro,
                   secao |-> secao, erro |-> erro,
                   exibiu |-> secao = "tabela" /\ erro = "nenhum"]]

\* main() from  df = st.session_state["df"]  on
Secoes(botao, a, filtro_carro) ==
    IF a.ss.df = None \/ a.ss.resumo = None
    THEN Fim(botao, a, <<>>, "stop", "nenhum")
    ELSE IF Indicadores(a.ss.resumo) # "nenhum"
    THEN Fim(botao, a, <<>>, "indicadores", Indicadores(a.ss.resumo))
    ELSE Fim(botao, a, filtro_carro, "tabela", TabelaDeCarros(a.ss.df, filtro_carro))

url_monitoramento_padrao == "http://45.71.160.173/monitoramento/"

url_atualiza_status_padrao == <<"http://45.71.160.173/monitoramento/atualiza_status.php">>

SemBotao(ss) == [ss |-> ss, chamadas |-> <<>>, resultados |-> <<>>]

\* main(): botao tells whether this run was started by the button; r1 and
\* r2 answer the first and the second call of the pipeline
main(ss, botao, ra, r1, r2, filtro_carro, agora) ==
    IF botao
    THEN Secoes(TRUE,
                Automatico(Botao(ss, url_monitoramento_padrao,
                                 url_atualiza_status_padrao, ra, r1, agora),
                           url_monitoramento_padrao, r2),
                filtro_carro)
    ELSE Secoes(FALSE,
                Automatico(SemBotao(ss), url_monitoramento_padrao, r1),
                filtro_carro)

\* the pages the monitored server answers the dashboard with
PaginasApp ==
    LET t117 == Unidade(TdC \o <<":", " ", "1", "1", "7">>, "total_carros", 117)
        t3 == Unidade(TdC \o <<":", "\n", "3">>, "total_carros", 3)
        f34 == Unidade(TdC \o <<" ", "Funcionando", ":", " ", "3", "4">>,
                       "total_funcionando", 34)
        f4 == Unidade(TdC \o <<" ", "Funcionando", ":", "4">>, "total_funcionando", 4)
        n83 == Unidade(TdC \o <<" ", "Não", " ", "Funcionando", ":", " ", "8", "3">>,
                       "total_nao_funcionando", 83)
        x == Unidade(<<"x">>, "nenhum", 0)
        pagina(unidades, tabelas) == [unidades |-> unidades, tabelas |-> tabelas]
    IN  { pagina(<<t117, f34, n83>>, <<Tabela(<<Carro, UltimoAcesso, Status>>, "A")>>),
          pagina(<<x>>, <<Tabela(<<UltimoAcesso, Status>>, "B")>>),
          pagina(<<t3, f34>>, <<Tabela(<<Carro>>, "C")>>),
          pagina(<<f4>>, <<Tabela(<<<<"Placa">>, <<"carro", " ">>>>, "D")>>),
          pagina(<<t117, f34, n83>>, <<>>) }

RespostasApp ==
    { [exc |-> e, html |-> None] : e \in {"Timeout", "HTTPError"} }
    \cup { [exc |-> "nenhum", html |-> h] : h \in PaginasApp }

RespostasAtualizaApp ==
    { [exc |-> "Timeout", text |-> <<>>], [exc |-> "nenhum", text |-> <<>>],
      [exc |-> "nenhum", text |-> <<"OK", "\n">>] }

Filtros == { <<>>, <<" ">>, <<"car">> }

\* The text of "Filtrar por carro": the widget is drawn by the table section,
\* so it holds a text only if the run before this one drew it.
FiltrosPossiveis == IF execucao.secao = "tabela" THEN Filtros ELSE {<<>>}

\* the script runs without a click: the page is opened, or the filter edited
Rerun ==
    /\ pc = "main"
    /\ relogio < MaxRelogio
    /\ relogio' = relogio + 1
    /\ \E r1 \in RespostasApp, filtro_carro \in FiltrosPossiveis :
        \E m \in {main(session_state, FALSE, r1, r1, r1, filtro_carro, relogio + 1)} :
            /\ session_state' = m.ss
            /\ execucao' = m.execucao
    /\ UNCHANGED <<pc, entrada, saida>>

\* the script runs because "Atualizar dados agora" was clicked; the button
\* is there to click once a run has drawn it
ClicarAtualizar ==
    /\ pc = "main"
    /\ execucao.secao # "inicio"
    /\ relogio < MaxRelogio
    /\ relogio' = relogio + 1
    /\ \E ra \in RespostasAtualizaApp, r1 \in RespostasApp, r2 \in RespostasApp,
          filtro_carro \in FiltrosPossiveis :
        \E m \in {main(session_state, TRUE, ra, r1, r2, filtro_carro, relogio + 1)} :
            /\ session_state' = m.ss
            /\ execucao' = m.execucao
    /\ UNCHANGED <<pc, entrada, saida>>

InitApp ==
    /\ pc = "main"
    /\ entrada = None
    /\ saida = None
    /\ SemSessao

NextApp == Rerun \/ ClicarAtualizar

SpecApp == InitApp /\ [][NextApp]_vars

(***************************************************************************)
(* Properties of the scraper functions.                                    *)
(***************************************************************************)
Campos == {"total_carros", "total_funcionando", "total_nao_funcionando"}

\* the value stated by the first unit of the page that states the field
PrimeiroValor(unidades, campo) ==
    LET idx == {i \in 1..Len(unidades) : unidades[i].campo = campo}
    IN  IF idx = {} THEN 0
        ELSE unidades[CHOOSE i \in idx : \A j \in idx : i <= j].valor

\* the page without the units that state one of the other two fields
SemOutros(html, campo) ==
    [html EXCEPT !.unidades =
        SelectSeq(html.unidades, LAMBDA u : u.campo \in {campo, "nenhum"})]

\* C1: when the fetch of get_monitoramento fails (no connection, timeout or
\* non-2xx status) the call raises MonitoramentoError, the message holds the
\* URL that was passed in, and neither parse_resumo nor parse_tabela ran; no
\* other kind of error leaves the call.
C1_FalhaNoFetch ==
    (pc = "feito" /\ entrada.resposta.exc # "nenhum") =>
        /\ saida.raised = "MonitoramentoError"
        /\ entrada.url \in Range(saida.msg)
        /\ "parse_resumo" \notin Range(saida.chamadas)
        /\ "parse_tabela" \notin Range(saida.chamadas)
        /\ saida.df = None /\ saida.resumo = None

C1_Witness ==
    /\ pc = "feito"
    /\ entrada.resposta.exc = "Timeout"
    /\ entrada.url = "http://host.invalid/"
    /\ saida.raised = "MonitoramentoError"
    /\ saida.chamadas = <<"fetch_html">>

\* C2: when the fetch succeeds and the page holds at least one table,
\* get_monitoramento returns (table, summary) without raising, whichever
\* labels and expected columns are there; with no total in the text the
\* summary is all zeros and the table is returned all the same.
C2_RetornaComTabela ==
    (pc = "feito" /\ entrada.resposta.exc = "nenhum"
        /\ entrada.resposta.html.tabelas # <<>>) =>
        /\ saida.raised = "nenhum"
        /\ saida.df # None
        /\ saida.df.linhas = entrada.resposta.html.tabelas[1].linhas
        /\ DOMAIN saida.resumo = Campos
        /\ (\A i \in 1..Len(entrada.resposta.html.unidades) :
                entrada.resposta.html.unidades[i].campo = "nenhum")
            => \A c \in Campos : saida.resumo[c] = 0

C2_Witness ==
    /\ pc = "feito"
    /\ entrada.resposta.exc = "nenhum"
    /\ entrada.resposta.html.unidades = <<Unidade(<<"x">>, "nenhum", 0)>>
    /\ Len(entrada.resposta.html.tabelas) = 1
    /\ entrada.resposta.html.tabelas[1].columns = <<<<"Placa">>>>
    /\ saida.raised = "nenhum"
    /\ saida.df.columns = <<<<"Placa">>>>
    /\ \A c \in Campos : saida.resumo[c] = 0

\* C3: parse_resumo extracts the three totals independently: a field whose
\* label is in the text is the integer after the label, a field whose label
\* is missing is 0, no field depends on the other two labels being there,
\* and the result has exactly the three fields.
C3_TotaisIndependentes ==
    pc = "feito" =>
        /\ DOMAIN saida.resumo = Campos
        /\ \A c \in Campos :
            /\ saida.resumo[c] = PrimeiroValor(entrada.unidades, c)
            /\ saida.resumo[c] = parse_resumo(SemOutros(entrada, c)).resumo[c]

C3_Witness ==
    /\ pc = "feito"
    /\ \A i \in 1..Len(entrada.unidades) : entrada.unidades[i].campo # "total_carros"
    /\ \E i \in 1..Len(entrada.unidades) : entrada.unidades[i].campo = "total_funcionando"
    /\ \E i \in 1..Len(entrada.unidades) : entrada.unidades[i].campo = "total_nao_funcionando"
    /\ saida.resumo.total_carros = 0
    /\ saida.resumo.total_funcionando = 34
    /\ saida.resumo.total_nao_funcionando = 8
    /\ saida.warning

\* C4: parse_tabela raises MonitoramentoError exactly when the page holds no
\* table; with one or more tables the result is built from the first table
\* of the document and from no later one.
C4_PrimeiraTabela ==
    pc = "feito" =>
        /\ saida.raised \in {"nenhum", "MonitoramentoError"}
        /\ saida.raised = "MonitoramentoError" <=> entrada.tabelas = <<>>
        /\ entrada.tabelas # <<>> =>
            /\ saida.df.linhas = entrada.tabelas[1].linhas
            /\ Len(saida.df.columns) = Len(entrada.tabelas[1].columns)

C4_Witness ==
    /\ pc = "feito"
    /\ Len(entrada.tabelas) >= 2
    /\ entrada.tabelas[2].linhas # entrada.tabelas[1].linhas
    /\ saida.raised = "nenhum"
    /\ saida.df.linhas = "A"

\* the name the ordered rules of the specification give a header
NomeEsperado(col) ==
    LET nome == LowerStr(Strip(col))
    IN  IF In("carro", nome) THEN <<"Carro">>
        ELSE IF In("último", nome) \/ In("ultimo", nome) THEN <<"Último", " ", "Acesso">>
        ELSE IF In("status", nome) THEN <<"Status">>
        ELSE col

\* C5: each header, stripped and lower-cased, is named by the ordered rules
\* carro -> Carro, último/ultimo -> Último Acesso, status -> Status, the
\* first rule that matches winning; a header no rule matches is unchanged;
\* normalising the normalised names again changes nothing.
C5_RegrasOrdenadas ==
    (pc = "feito" /\ saida.raised = "nenhum") =>
        LET origem == entrada.tabelas[1].columns
        IN  /\ Len(saida.df.columns) = Len(origem)
            /\ \A i \in 1..Len(origem) : saida.df.columns[i] = NomeEsperado(origem[i])
            /\ NormalizaColunas(saida.df.columns) = saida.df.columns

C5_Witness ==
    /\ pc = "feito"
    /\ entrada.tabelas # <<>>
    /\ entrada.tabelas[1].columns = <<<<"STATUS", " ", "Carro">>, <<"Placa">>, <<" ", "ÚLTIMO">>>>
    /\ saida.df.columns = <<<<"Carro">>, <<"Placa">>, <<"Último", " ", "Acesso">>>>

\* C10: for pairwise distinct source headers the normalised column names
\* are pairwise distinct, so each expected name labels at most one column.
C10_ColunasDistintas ==
    (pc = "feito" /\ saida.raised = "nenhum" /\ Distintas(entrada.tabelas[1].columns)) =>
        Distintas(saida.df.columns)

\* C6 as stated: no exception on a failed or non-2xx request, (False, error
\* text) instead; on success (True, body) with the body unchanged, the
\* empty body replaced by the canned message.
C6_CorpoLiteral ==
    pc = "feito" =>
        /\ saida.raised = "nenhum"
        /\ entrada.resposta.exc # "nenhum" =>
            (~saida.ok /\ entrada.resposta.exc \in Range(saida.msg))
        /\ entrada.resposta.exc = "nenhum" =>
            /\ saida.ok
            /\ saida.msg = IF entrada.resposta.text = <<>>
                           THEN SemMensagem ELSE entrada.resposta.text

\* msg is body without the whitespace at its two ends
Aparado(msg, body) ==
    \E i \in 1..Len(body) : \E j \in i..Len(body) :
        /\ msg = SubSeq(body, i, j)
        /\ ~IsSpace(body[i]) /\ ~IsSpace(body[j])
        /\ \A k \in (1..(i - 1)) \cup ((j + 1)..Len(body)) : IsSpace(body[k])

\* C6 amended: no exception on a failed or non-2xx request, (False, error
\* text) instead; on success (True, message) where the message is the body
\* without its leading and trailing whitespace, and the canned message when
\* the body is empty or all whitespace.
C6_CorpoAparado ==
    pc = "feito" =>
        /\ saida.raised = "nenhum"
        /\ entrada.resposta.exc # "nenhum" =>
            (~saida.ok /\ entrada.resposta.exc \in Range(saida.msg))
        /\ entrada.resposta.exc = "nenhum" =>
            /\ saida.ok
            /\ IF \A k \in 1..Len(entrada.resposta.text) : IsSpace(entrada.resposta.text[k])
               THEN saida.msg = SemMensagem
               ELSE Aparado(saida.msg, entrada.resposta.text)

C6_Witness ==
    /\ pc = "feito"
    /\ entrada.resposta.exc = "nenhum"
    /\ entrada.resposta.text = <<" ", "OK", "\n">>
    /\ saida.ok
    /\ saida.msg = <<"OK">>

(***************************************************************************)
(* Properties of the dashboard.                                            *)
(***************************************************************************)
\* the stored table and the stored summary are both unset, or are the pair
\* one successful call of the pipeline returned
ParCoerente ==
    \/ session_state.df = None /\ session_state.resumo = None
    \/ \E r \in RespostasApp :
        \E dados \in {get_monitoramento(url_monitoramento_padrao, r)} :
            /\ dados.raised = "nenhum"
            /\ session_state.df = dados.df
            /\ session_state.resumo = dados.resumo

\* the run just made left the stored table, summary and timestamp alone
Intacto ==
    /\ session_state'.df = session_state.df
    /\ session_state'.resumo = session_state.resumo
    /\ session_state'.ultima_execucao = session_state.ultima_execucao

FalhouAlguma == \E i \in 1..Len(execucao.resultados) : execucao.resultados[i] # "nenhum"

FalharamTodas ==
    /\ execucao.resultados # <<>>
    /\ \A i \in 1..Len(execucao.resultados) : execucao.resultados[i] # "nenhum"

\* C7 as stated: the stored table and summary are both unset or come from
\* the same successful run of the pipeline, and a run in which a call of
\* the pipeline raises leaves the stored table, the stored summary and the
\* last-execution timestamp as they were before the run.
C7_FalhaNaoAltera == [](ParCoerente) /\ [][FalhouAlguma' => Intacto]_vars

\* C7 amended: the stored table and summary are both unset or come from the
\* same successful call of the pipeline, and a run in which every call of
\* the pipeline raises leaves the stored table, the stored summary and the
\* last-execution timestamp as they were before the run.
C7_FalhaTotalNaoAltera == [](ParCoerente) /\ [][FalharamTodas' => Intacto]_vars

C7_Witness ==
    /\ execucao.botao
    /\ execucao.resultados = <<"MonitoramentoError">>
    /\ session_state.df # None
    /\ session_state.resumo # None
    /\ session_state.ultima_execucao = [t |-> 2]
    /\ relogio = 3

\* every call of the pipeline in the run comes after a call of the trigger
GatilhoAntes ==
    \A i \in 1..Len(execucao.chamadas) :
        execucao.chamadas[i] = "carregar_dados" =>
            \E j \in 1..(i - 1) : execucao.chamadas[j] = "chamar_atualiza_status"

\* C8 as stated: in every run of the dashboard each call of the pipeline
\* comes after chamar_atualiza_status was called in that run, the automatic
\* load with no table stored and the reload after a failed refresh included.
C8_GatilhoEmTodaCarga == GatilhoAntes

\* C8 amended: in every run started by the button each call of the pipeline,
\* the reload after a failed refresh included, comes after
\* chamar_atualiza_status was called in that run; a run not started by the
\* button never calls chamar_atualiza_status, and its automatic load runs
\* without the trigger.
C8_GatilhoNoBotao ==
    /\ execucao.botao =>
        /\ GatilhoAntes
        /\ "carregar_dados" \in Range(execucao.chamadas)
    /\ ~execucao.botao => "chamar_atualiza_status" \notin Range(execucao.chamadas)

C8_Witness ==
    /\ execucao.botao
    /\ execucao.chamadas = <<"chamar_atualiza_status", "carregar_dados", "carregar_dados">>
    /\ execucao.resultados = <<"MonitoramentoError", "nenhum">>

\* C9: a returned table is displayed, also one that lacks some of the
\* columns Carro, Último Acesso and Status, whatever the text of the car
\* filter: a run that arrives at the table section reaches the table
\* display and no exception ends it.
C9_DegradadoExibido ==
    execucao.secao = "tabela" => (execucao.erro = "nenhum" /\ execucao.exibiu)

====
